---------------------------- MODULE Spec2Model ----------------------------
(***************************************************************************)
(* The charge-history normalizer of examples/find_vehicle.py:              *)
(* _parse_datetime_flexible, _extract_points_kwh_from_list,                *)
(* _iter_nested_lists and _extract_points_kwh.                             *)
(*                                                                         *)
(* Encoding of Python values.  A payload value is a record                 *)
(*   [tag, n, s, keys, kids]                                               *)
(* tag "none" is None, "num" an int/float n, "str" a string s, "list" a    *)
(* list of kids, "dict" a mapping whose i-th key keys[i] maps to kids[i]   *)
(* (Python dicts iterate in insertion order).                              *)
(* A string is the sequence of its lexical pieces (whitespace, a date, a   *)
(* time, a UTC offset, a number, other text), so that strip(), endswith()  *)
(* and the parsers act on its content.                                     *)
(*                                                                         *)
(* Units.  Epoch numbers are counted in units of 10^8, so that the         *)
(* threshold 10^12 of line 30 and the values around it fit TLC's integers: *)
(* 17 is 1_700_000_000 and 17000 is 1_700_000_000_000.  Wall-clock values  *)
(* of a datetime are counted in ticks of 200 seconds.  Energy is fixed     *)
(* point with three decimals (5.0 is 5000).                                *)
(***************************************************************************)
EXTENDS Integers, Sequences, FiniteSets

VARIABLES
    history,     \* the argument of _extract_points_kwh
    pc,          \* where the call of _extract_points_kwh stands
    kidx,        \* position of "for key in (...)" (lines 126-133)
    cidx,        \* position of "for candidate in _iter_nested_lists" (138)
    ret,         \* which loop called _extract_points_kwh_from_list
    items,       \* argument of _extract_points_kwh_from_list
    idx,         \* position of "for item in items" (line 78)
    when,        \* local "when" of the last iteration (line 81)
    energy_kwh,  \* local "energy_kwh" of the last iteration (line 90)
    points,      \* local "points" (line 77)
    result,      \* outcome of _extract_points_kwh
    value,       \* argument of a lone _parse_datetime_flexible call
    parsed       \* its outcome

vars == <<history, pc, kidx, cidx, ret, items, idx, when, energy_kwh,
          points, result, value, parsed>>

---------------------------------------------------------------------------
(* Python values *)

PyNone == [tag |-> "none", n |-> 0, s |-> <<>>, keys |-> <<>>, kids |-> <<>>]

PyNum(n) == [tag |-> "num", n |-> n, s |-> <<>>, keys |-> <<>>, kids |-> <<>>]

PyStr(s) == [tag |-> "str", n |-> 0, s |-> s, keys |-> <<>>, kids |-> <<>>]

PyList(kids) == [tag |-> "list", n |-> 0, s |-> <<>>, keys |-> <<>>, kids |-> kids]

PyDict(keys, kids) == [tag |-> "dict", n |-> 0, s |-> <<>>, keys |-> keys, kids |-> kids]

IsDict(v) == v.tag = "dict"

IsList(v) == v.tag = "list"

IsNum(v) == v.tag = "num"

IsStr(v) == v.tag = "str"

\* "k in d"
HasKey(d, k) == \E i \in 1..Len(d.keys) : d.keys[i] = k

\* "d[k]" / "d.get(k)" for a key that is present
Get(d, k) == d.kids[CHOOSE i \in 1..Len(d.keys) : d.keys[i] = k]

---------------------------------------------------------------------------
(* datetime values: an Optional[datetime] is a record [some, aware, off, t]; *)
(* t is the wall-clock value in ticks, off the UTC offset in ticks of an     *)
(* aware value (tzinfo set), and aware = FALSE a naive value (tzinfo None).  *)

NoDatetime == [some |-> FALSE, aware |-> FALSE, off |-> 0, t |-> 0]

Aware(t, off) == [some |-> TRUE, aware |-> TRUE, off |-> off, t |-> t]

Naive(t) == [some |-> TRUE, aware |-> FALSE, off |-> 0, t |-> t]

\* The lexical pieces of the strings of the model.
Whitespace == {" "}

\* Zero-padded calendar dates and the day number (days since 1970-01-01).
PaddedDates == [ d \in {"2024-01-14", "2024-01-15"} |->
                   IF d = "2024-01-14" THEN 19736 ELSE 19737 ]

\* Dates that are not zero-padded: strptime's %m and %d accept them,
\* fromisoformat does not.
UnpaddedDates == [ d \in {"2024-1-5"} |-> 19727 ]

\* Time-of-day pieces and their value in ticks.
TimesOfDay == [ d \in {"T09:00:00", "T10:00:00"} |->
                  IF d = "T09:00:00" THEN 162 ELSE 180 ]

\* UTC-offset pieces and their value in ticks.
Offsets == [ d \in {"+00:00", "+05:00"} |-> IF d = "+00:00" THEN 0 ELSE 90 ]

\* Decimal numerals and their value.
Numerals == [ d \in {"0", "5", "-3", "5000"} |->
                CASE d = "0" -> 0 [] d = "5" -> 5 [] d = "-3" -> 0 - 3
                  [] OTHER -> 5000 ]

\* A day is 86400 seconds, 432 ticks.
DayTicks(day) == day * 432

\* str.strip(): leading and trailing whitespace removed
RECURSIVE LStrip(_)
LStrip(s) == IF s # <<>> /\ Head(s) \in Whitespace THEN LStrip(Tail(s)) ELSE s

RECURSIVE RStrip(_)
RStrip(s) ==
    IF s # <<>> /\ s[Len(s)] \in Whitespace
    THEN RStrip(SubSeq(s, 1, Len(s) - 1)) ELSE s

Strip(s) == RStrip(LStrip(s))

\* datetime.fromtimestamp(secs, tz=timezone.utc) for secs in units of 10^8
\* seconds (5 * 10^5 ticks each): the years 1..9999 are -62135596800 ..
\* 253402300799 seconds; outside them it raises (caught on line 33).
FromTimestampUnits(secs) ==
    IF secs >= 0 - 621 /\ secs <= 2534
    THEN Aware(secs * 500000, 0) ELSE NoDatetime

\* datetime.fromtimestamp(value / 1000.0, tz=timezone.utc) for value in
\* units of 10^8 (milliseconds): value/1000 is value * 10^5 seconds, that
\* is value * 500 ticks.
FromTimestampMillis(ms) ==
    IF ms >= 0 - 621355 /\ ms <= 2534023
    THEN Aware(ms * 500, 0) ELSE NoDatetime

\* Line 30: the number above which an epoch value is read as milliseconds,
\* 1_000_000_000_000 in units of 10^8.
MsThreshold == 10000

\* datetime.fromisoformat(v): YYYY-MM-DD[THH:MM:SS[+HH:MM]]; a value without
\* offset is naive, one with an offset is aware and keeps that offset.
\* Anything else raises ValueError (NoDatetime here).
FromIsoFormat(v) ==
    CASE Len(v) = 1 /\ v[1] \in DOMAIN PaddedDates ->
           Naive(DayTicks(PaddedDates[v[1]]))
      [] Len(v) = 2 /\ v[1] \in DOMAIN PaddedDates
                    /\ v[2] \in DOMAIN TimesOfDay ->
           Naive(DayTicks(PaddedDates[v[1]]) + TimesOfDay[v[2]])
      [] Len(v) = 3 /\ v[1] \in DOMAIN PaddedDates
                    /\ v[2] \in DOMAIN TimesOfDay
                    /\ v[3] \in DOMAIN Offsets ->
           Aware(DayTicks(PaddedDates[v[1]]) + TimesOfDay[v[2]], Offsets[v[3]])
      [] OTHER -> NoDatetime

\* datetime.strptime(v, "%Y-%m-%d").replace(tzinfo=timezone.utc)
StrptimeDateUtc(v) ==
    CASE Len(v) = 1 /\ v[1] \in DOMAIN PaddedDates ->
           Aware(DayTicks(PaddedDates[v[1]]), 0)
      [] Len(v) = 1 /\ v[1] \in DOMAIN UnpaddedDates ->
           Aware(DayTicks(UnpaddedDates[v[1]]), 0)
      [] OTHER -> NoDatetime

\* _parse_datetime_flexible, lines 24-51
_parse_datetime_flexible(val) ==
    CASE val.tag = "none" -> NoDatetime
      [] val.tag = "num" ->
           IF val.n > MsThreshold
           THEN FromTimestampMillis(val.n)
           ELSE FromTimestampUnits(val.n)
      [] val.tag = "str" ->
           LET v0 == Strip(val.s) IN
           IF v0 = <<>> THEN NoDatetime
           ELSE LET v == IF v0[Len(v0)] = "Z"
                         THEN SubSeq(v0, 1, Len(v0) - 1) \o <<"+00:00">>
                         ELSE v0
                    iso == FromIsoFormat(v)
                IN  IF iso.some THEN iso ELSE StrptimeDateUtc(v)
      [] OTHER -> NoDatetime

---------------------------------------------------------------------------
(* _extract_points_kwh_from_list *)

\* Lines 55-64
time_keys ==
    <<"timestamp", "time", "date", "start_date", "start_time",
      "charging_start_time", "session_date", "end_time">>

\* Lines 65-75
energy_keys ==
    <<"charge_energy_added", "energy_added", "kwh", "energy", "charged_kwh",
      "energy_kWh", "charger_energy", "total_energy_wh", "total_energy_Wh">>

\* The characters of the energy field names, for ek.lower().endswith("wh").
KeyChars ==
    [ charge_energy_added |-> <<"c","h","a","r","g","e","_","e","n","e","r","g","y","_","a","d","d","e","d">>,
      energy_added |-> <<"e","n","e","r","g","y","_","a","d","d","e","d">>,
      kwh |-> <<"k","w","h">>,
      energy |-> <<"e","n","e","r","g","y">>,
      charged_kwh |-> <<"c","h","a","r","g","e","d","_","k","w","h">>,
      energy_kWh |-> <<"e","n","e","r","g","y","_","k","W","h">>,
      charger_energy |-> <<"c","h","a","r","g","e","r","_","e","n","e","r","g","y">>,
      total_energy_wh |-> <<"t","o","t","a","l","_","e","n","e","r","g","y","_","w","h">>,
      total_energy_Wh |-> <<"t","o","t","a","l","_","e","n","e","r","g","y","_","W","h">> ]

\* str.lower() on the characters that occur in the field names
LowerChar(c) == CASE c = "W" -> "w" [] OTHER -> c

Lower(cs) == [ i \in 1..Len(cs) |-> LowerChar(cs[i]) ]

\* Line 97: ek.lower().endswith("wh")
EndsWithWh(ek) ==
    LET cs == Lower(KeyChars[ek]) IN
    Len(cs) >= 2 /\ cs[Len(cs) - 1] = "w" /\ cs[Len(cs)] = "h"

\* An Optional[float]: x is the value in thousandths.
NoEnergy == [some |-> FALSE, x |-> 0]

SomeEnergy(x) == [some |-> TRUE, x |-> x]

\* float(n) of a number n, in thousandths
Fixed(n) == n * 1000

\* float(s) of a string: surrounding whitespace is ignored, a numeral is
\* converted, anything else raises ValueError (NoEnergy here).
FloatOfStr(s) ==
    LET v == Strip(s) IN
    IF Len(v) = 1 /\ v[1] \in DOMAIN Numerals
    THEN SomeEnergy(Fixed(Numerals[v[1]])) ELSE NoEnergy

\* Lines 93-101: the conversion of the value of the energy field ek.
\* A string becomes a float first (line 96); a number under a field whose
\* lower-cased name ends with "wh" is divided by 1000.0 (line 98); float()
\* of None, a list or a dict raises TypeError (line 99, caught on line 100).
ConvertEnergy(ek, val) ==
    LET v1 == IF IsStr(val) THEN FloatOfStr(val.s)
              ELSE IF IsNum(val) THEN SomeEnergy(Fixed(val.n))
              ELSE NoEnergy
    IN  IF ~v1.some THEN NoEnergy
        ELSE IF EndsWithWh(ek) THEN SomeEnergy(v1.x \div 1000)
        ELSE v1

\* Lines 81-86: the loop over time_keys, from position i on.
RECURSIVE WhenFrom(_, _)
WhenFrom(item, i) ==
    IF i > Len(time_keys) THEN NoDatetime
    ELSE IF HasKey(item, time_keys[i])
         THEN LET w == _parse_datetime_flexible(Get(item, time_keys[i])) IN
              IF w.some THEN w ELSE WhenFrom(item, i + 1)
         ELSE WhenFrom(item, i + 1)

\* The loop with "break" right after the first field that is present,
\* whether or not its value parses.
ExtractWhenFirstPresent(item) ==
    LET present == { i \in 1..Len(time_keys) : HasKey(item, time_keys[i]) } IN
    IF present = {} THEN NoDatetime
    ELSE _parse_datetime_flexible(
           Get(item, time_keys[CHOOSE i \in present : \A j \in present : i <= j]))

ExtractWhen(item) == WhenFrom(item, 1)

\* Lines 90-102: the loop over energy_keys, from position i on; it ends at
\* the first field that is present (the break of line 102).
RECURSIVE EnergyFrom(_, _)
EnergyFrom(item, i) ==
    IF i > Len(energy_keys) THEN NoEnergy
    ELSE IF HasKey(item, energy_keys[i])
         THEN ConvertEnergy(energy_keys[i], Get(item, energy_keys[i]))
         ELSE EnergyFrom(item, i + 1)

\* The energy with "if not energy_kwh" in place of "if energy_kwh is None":
\* an energy of 0.0 counts as missing.
ExtractEnergyDropZero(item) ==
    LET e == EnergyFrom(item, 1) IN IF e.x = 0 THEN NoEnergy ELSE e

ExtractEnergy(item) == EnergyFrom(item, 1)

\* A point (when, energy_kwh), line 105
Point(w, e) == [when |-> w, energy |-> e.x]

\* The instant two aware values are compared by, the wall-clock value two
\* naive values are compared by.
SortKey(w) == IF w.aware THEN w.t - w.off ELSE w.t

\* p[0] < q[0] of two datetimes that can be compared
KeyLess(p, q) == SortKey(p.when) < SortKey(q.when)

\* Comparing a naive with an aware datetime raises TypeError; a sort of two
\* or more points has to compare across the two kinds when both occur.
MixedKinds(pts) ==
    \E i, j \in 1..Len(pts) : pts[i].when.aware # pts[j].when.aware

\* p inserted in front of the elements that are not smaller: a sort that
\* turns the order of equal keys around.
InsertPointBeforeTies(s, p) ==
    LET notless == { j \in 1..Len(s) : ~KeyLess(s[j], p) }
        at == IF notless = {} THEN Len(s) + 1
              ELSE CHOOSE j \in notless : \A k \in notless : j <= k
    IN  SubSeq(s, 1, at - 1) \o <<p>> \o SubSeq(s, at, Len(s))

\* p inserted into the sorted s behind every element that is not greater
InsertPoint(s, p) ==
    LET greater == { j \in 1..Len(s) : KeyLess(p, s[j]) }
        at == IF greater = {} THEN Len(s) + 1
              ELSE CHOOSE j \in greater : \A k \in greater : j <= k
    IN  SubSeq(s, 1, at - 1) \o <<p>> \o SubSeq(s, at, Len(s))

RECURSIVE StableSort(_)
StableSort(pts) ==
    IF pts = <<>> THEN <<>>
    ELSE InsertPoint(StableSort(SubSeq(pts, 1, Len(pts) - 1)), pts[Len(pts)])

\* Line 107: points.sort(key=lambda p: p[0]), a stable sort that raises
\* when two keys cannot be compared.
sort_points(pts) ==
    IF MixedKinds(pts) THEN [raised |-> TRUE, pts |-> pts]
    ELSE [raised |-> FALSE, pts |-> StableSort(pts)]

---------------------------------------------------------------------------
(* _iter_nested_lists, lines 111-119: the lists it yields, in order *)

AllDicts(kids) == \A i \in 1..Len(kids) : IsDict(kids[i])

RECURSIVE _iter_nested_lists(_), IterEach(_)
_iter_nested_lists(obj) ==
    IF IsList(obj) /\ AllDicts(obj.kids) THEN <<obj>>
    ELSE IF IsDict(obj) THEN IterEach(obj.kids)
    ELSE IF IsList(obj) THEN IterEach(obj.kids)
    ELSE <<>>

IterEach(kids) ==
    IF kids = <<>> THEN <<>>
    ELSE _iter_nested_lists(Head(kids)) \o IterEach(Tail(kids))

\* Lines 126-133
known_keys ==
    <<"data_points", "data", "points", "items", "history", "charging_sessions">>

---------------------------------------------------------------------------
(* The payloads of the model *)

\* Longest list of records drawn from CoreRecords.
MaxItems == 4

\* Longest list of records drawn from all of Records.
MaxMixed == 2

\* One-field pieces of a record: <<keys, values>>.
TimeParts ==
    { <<<<"timestamp">>, <<PyNum(17)>>>>,
      <<<<"timestamp">>, <<PyNum(17000)>>>>,
      <<<<"timestamp">>, <<PyNum(0 - 17000)>>>>,
      <<<<"timestamp">>, <<PyStr(<<"2024-01-15", "T10:00:00", "Z">>)>>>>,
      <<<<"timestamp">>,
        <<PyStr(<<" ", "2024-01-15", "T10:00:00", "+05:00", " ">>)>>>>,
      <<<<"timestamp">>, <<PyStr(<<"2024-01-15", "T09:00:00">>)>>>>,
      <<<<"date">>, <<PyStr(<<"2024-01-14">>)>>>>,
      <<<<"start_date">>, <<PyStr(<<"2024-1-5">>)>>>>,
      <<<<"timestamp">>, <<PyStr(<<"abc">>)>>>>,
      <<<<"time", "timestamp">>, <<PyNum(17), PyStr(<<"abc">>)>>>>,
      <<<<>>, <<>>>> }

EnergyParts ==
    { <<<<"energy">>, <<PyNum(2)>>>>,
      <<<<"energy">>, <<PyNum(0)>>>>,
      <<<<"kwh">>, <<PyNum(5)>>>>,
      <<<<"total_energy_Wh">>, <<PyNum(5000)>>>>,
      <<<<"energy_added">>, <<PyNum(0 - 3)>>>>,
      <<<<"charge_energy_added">>, <<PyStr(<<" ", "5", " ">>)>>>>,
      <<<<"energy", "charge_energy_added">>, <<PyNum(5), PyStr(<<"abc">>)>>>>,
      <<<<"energy">>, <<PyNone>>>>,
      <<<<>>, <<>>>> }

Record(tp, ep) == PyDict(tp[1] \o ep[1], tp[2] \o ep[2])

PlainEnergy == <<<<"energy">>, <<PyNum(2)>>>>

SecondsTime == <<<<"timestamp">>, <<PyNum(17)>>>>

\* Every time piece with a plain energy field, every energy piece with a
\* plain timestamp.
Records ==
    { Record(tp, PlainEnergy) : tp \in TimeParts }
      \cup { Record(SecondsTime, ep) : ep \in EnergyParts }

\* The records of the longer lists: two aware instants that tie (seconds
\* and milliseconds of one instant, with different energies), a later and
\* an earlier aware instant, a naive one, and a record without energy.
CoreRecords ==
    { Record(SecondsTime, PlainEnergy),
      PyDict(<<"timestamp", "kwh">>, <<PyNum(17000), PyNum(5)>>),
      PyDict(<<"timestamp", "energy">>,
             <<PyStr(<<"2024-01-15", "T10:00:00", "Z">>), PyNum(2)>>),
      PyDict(<<"timestamp", "total_energy_Wh">>,
             <<PyStr(<<"2024-01-15", "T10:00:00", "+05:00">>), PyNum(5000)>>),
      PyDict(<<"date", "energy">>, <<PyStr(<<"2024-01-14">>), PyNum(2)>>),
      PyDict(<<"timestamp">>, <<PyNum(17)>>) }

SeqsUpTo(S, n) == UNION { [1..k -> S] : k \in 0..n }

RecordLists == SeqsUpTo(CoreRecords, MaxItems) \cup SeqsUpTo(Records, MaxMixed)

\* Short lists for the payloads with several lists: an empty one, one that
\* yields a point, another that yields a different point, one that yields
\* none, and one whose sort raises.
SmallLists ==
    { <<>>,
      <<Record(SecondsTime, PlainEnergy)>>,
      <<PyDict(<<"timestamp", "kwh">>, <<PyNum(17000), PyNum(5)>>)>>,
      <<PyDict(<<"timestamp">>, <<PyNum(17)>>)>>,
      <<PyDict(<<"date", "energy">>, <<PyStr(<<"2024-01-14">>), PyNum(2)>>),
        Record(SecondsTime, PlainEnergy)>> }

\* A record that also holds a list of records under a field of its own.
Nesting(l) ==
    { PyDict(<<"values">>, <<PyList(l)>>),
      PyDict(<<"timestamp", "energy", "values">>,
             <<PyNum(17), PyNum(2), PyList(l)>>) }

Payloads ==
    { PyNone, PyNum(17), PyStr(<<"abc">>) }
      \cup { PyList(l) : l \in RecordLists }
      \cup { PyDict(<<"data">>, <<PyList(l)>>) : l \in RecordLists }
      \cup { PyDict(<<"data">>, <<v>>) : v \in {PyNone, PyNum(17)} }
      \cup { PyDict(<<"data">>, <<PyList(<<PyNum(5)>> \o l)>>) : l \in SmallLists }
      \cup { PyList(<<PyNum(5)>> \o l) : l \in SmallLists }
      \cup { PyDict(<<"zzz", "data_points", "data">>,
                    <<PyList(a), PyList(b), PyList(c)>>) :
               a \in SmallLists, b \in SmallLists, c \in SmallLists }
      \cup { PyDict(<<"history", "points">>, <<PyList(a), PyList(b)>>) :
               a \in SmallLists, b \in SmallLists }
      \cup { PyDict(<<"response">>,
                    <<PyDict(<<"first", "second">>, <<PyList(a), PyList(b)>>)>>) :
               a \in SmallLists, b \in SmallLists }
      \cup { PyList(<<PyList(a), PyList(b)>>) :
               a \in SmallLists, b \in SmallLists }
      \cup UNION { { PyList(<<r>>), PyDict(<<"other">>, <<PyList(<<r>>)>>),
                     PyDict(<<"data">>, <<PyList(<<r>>)>>) } :
                   r \in UNION { Nesting(l) : l \in SmallLists } }

---------------------------------------------------------------------------
(* _extract_points_kwh, lines 122-142, step by step *)

Running == [status |-> "running", pts |-> <<>>]

Returned(pts) == [status |-> "returned", pts |-> pts]

\* The call ended with the exception of points.sort (line 107).
Raised == [status |-> "raised", pts |-> <<>>]

Init ==
    /\ history \in Payloads
    /\ pc = "start"
    /\ kidx = 1
    /\ cidx = 1
    /\ ret = "none"
    /\ items = <<>>
    /\ idx = 1
    /\ when = NoDatetime
    /\ energy_kwh = NoEnergy
    /\ points = <<>>
    /\ result = Running
    /\ value = PyNone
    /\ parsed = NoDatetime

\* Lines 123-124
ReturnAbsent ==
    /\ pc = "start"
    /\ history.tag = "none"
    /\ pc' = "done"
    /\ result' = Returned(<<>>)
    /\ UNCHANGED <<history, kidx, cidx, ret, items, idx, when, energy_kwh,
                   points, value, parsed>>

\* Line 125, the payload is a mapping
EnterKnownKeys ==
    /\ pc = "start"
    /\ IsDict(history)
    /\ pc' = "keys"
    /\ kidx' = 1
    /\ UNCHANGED <<history, cidx, ret, items, idx, when, energy_kwh, points,
                   result, value, parsed>>

KeyHoldsList(k) == HasKey(history, k) /\ IsList(Get(history, k))

\* The loop over the known keys left at the first key that held a list.
AfterEmptyKnownKeyBreak(k) == Len(known_keys) + 1

\* Lines 126, 136: the parse of history[key] came back empty and the loop
\* over the known keys goes on with the next key.
AfterEmptyKnownKey(k) == k + 1

\* Line 134 is false for the key at hand: on to the next key
SkipKnownKey ==
    /\ pc = "keys"
    /\ kidx <= Len(known_keys)
    /\ ~KeyHoldsList(known_keys[kidx])
    /\ kidx' = kidx + 1
    /\ UNCHANGED <<history, pc, cidx, ret, items, idx, when, energy_kwh,
                   points, result, value, parsed>>

\* Lines 134-135: _extract_points_kwh_from_list(history[key]) is called
CallKnownKey ==
    /\ pc = "keys"
    /\ kidx <= Len(known_keys)
    /\ KeyHoldsList(known_keys[kidx])
    /\ items' = Get(history, known_keys[kidx]).kids
    /\ idx' = 1
    /\ points' = <<>>
    /\ when' = NoDatetime
    /\ energy_kwh' = NoEnergy
    /\ ret' = "keys"
    /\ pc' = "parse"
    /\ UNCHANGED <<history, kidx, cidx, result, value, parsed>>

\* Line 138 is reached: the payload is no mapping, or the loop over the
\* known keys has ended
EnterTreeSearch ==
    /\ \/ pc = "start" /\ history.tag # "none" /\ ~IsDict(history)
       \/ pc = "keys" /\ kidx > Len(known_keys)
    /\ pc' = "tree"
    /\ cidx' = 1
    /\ UNCHANGED <<history, kidx, ret, items, idx, when, energy_kwh, points,
                   result, value, parsed>>

\* Lines 138-139: the next candidate is parsed
CallCandidate ==
    /\ pc = "tree"
    /\ cidx <= Len(_iter_nested_lists(history))
    /\ items' = _iter_nested_lists(history)[cidx].kids
    /\ idx' = 1
    /\ points' = <<>>
    /\ when' = NoDatetime
    /\ energy_kwh' = NoEnergy
    /\ ret' = "tree"
    /\ pc' = "parse"
    /\ UNCHANGED <<history, kidx, cidx, result, value, parsed>>

\* Line 142
ReturnEmpty ==
    /\ pc = "tree"
    /\ cidx > Len(_iter_nested_lists(history))
    /\ pc' = "done"
    /\ result' = Returned(<<>>)
    /\ UNCHANGED <<history, kidx, cidx, ret, items, idx, when, energy_kwh,
                   points, value, parsed>>

\* Lines 78-105: one iteration of "for item in items"
ParseItem ==
    /\ pc = "parse"
    /\ idx <= Len(items)
    /\ idx' = idx + 1
    /\ LET item == items[idx] IN
       IF ~IsDict(item)
       THEN UNCHANGED <<when, energy_kwh, points>>
       ELSE LET w == ExtractWhen(item) IN
            /\ when' = w
            /\ IF ~w.some
               THEN UNCHANGED <<energy_kwh, points>>
               ELSE LET e == ExtractEnergy(item) IN
                    /\ energy_kwh' = e
                    /\ points' = IF e.some THEN Append(points, Point(w, e))
                                 ELSE points
    /\ UNCHANGED <<history, pc, kidx, cidx, ret, items, result, value, parsed>>

\* Lines 107-108 and the caller's "if pts: return pts" (136-137, 140-141):
\* the sort raises, or the points are returned, or the caller's loop goes on
SortReturn ==
    /\ pc = "parse"
    /\ idx > Len(items)
    /\ LET o == sort_points(points) IN
       IF o.raised
       THEN /\ result' = Raised
            /\ pc' = "done"
            /\ UNCHANGED <<points, kidx, cidx>>
       ELSE /\ points' = o.pts
            /\ IF o.pts # <<>>
               THEN /\ result' = Returned(o.pts)
                    /\ pc' = "done"
                    /\ UNCHANGED <<kidx, cidx>>
               ELSE /\ pc' = ret
                    /\ kidx' = IF ret = "keys" THEN AfterEmptyKnownKey(kidx) ELSE kidx
                    /\ cidx' = IF ret = "tree" THEN cidx + 1 ELSE cidx
                    /\ UNCHANGED result
    /\ UNCHANGED <<history, ret, items, idx, when, energy_kwh, value, parsed>>

Next ==
    \/ ReturnAbsent
    \/ EnterKnownKeys
    \/ SkipKnownKey
    \/ CallKnownKey
    \/ EnterTreeSearch
    \/ CallCandidate
    \/ ReturnEmpty
    \/ ParseItem
    \/ SortReturn

Spec == Init /\ [][Next]_vars

---------------------------------------------------------------------------
(* _parse_datetime_flexible on its own: one call on one value *)

\* Largest magnitude of the small epoch numbers tried.
MaxEpoch == 30

ParseInputs ==
    { PyNum(n) : n \in (0 - MaxEpoch)..MaxEpoch }
      \cup { PyNum(n) : n \in { 17000, 10001, 10000, 9999, 2535, 2534,
                               0 - 621, 0 - 622, 0 - 9999, 0 - 10000,
                               0 - 10001, 0 - 17000 } }
      \cup { PyNone, PyList(<<>>), PyStr(<<>>), PyStr(<<" ">>),
             PyStr(<<"abc">>), PyStr(<<"5">>),
             PyStr(<<"2024-01-15">>), PyStr(<<"2024-1-5">>),
             PyStr(<<"2024-01-15", "T10:00:00">>),
             PyStr(<<"2024-01-15", "T10:00:00", "Z">>),
             PyStr(<<"2024-01-15", "T10:00:00", "+00:00">>),
             PyStr(<<" ", "2024-01-15", "T10:00:00", "+05:00", " ">>) }

InitParse ==
    /\ value \in ParseInputs
    /\ parsed = NoDatetime
    /\ pc = "parse_call"
    /\ history = PyNone
    /\ kidx = 1
    /\ cidx = 1
    /\ ret = "none"
    /\ items = <<>>
    /\ idx = 1
    /\ when = NoDatetime
    /\ energy_kwh = NoEnergy
    /\ points = <<>>
    /\ result = Running

ParseCall ==
    /\ pc = "parse_call"
    /\ parsed' = _parse_datetime_flexible(value)
    /\ pc' = "parse_done"
    /\ UNCHANGED <<history, kidx, cidx, ret, items, idx, when, energy_kwh,
                   points, result, value>>

NextParse == ParseCall

SpecParse == InitParse /\ [][NextParse]_vars

---------------------------------------------------------------------------
(* What the properties are stated with *)

HasReturned == pc = "done" /\ result.status = "returned"

\* The orders of field names as the documentation gives them.
ClaimedTimeOrder ==
    <<"timestamp", "time", "date", "start_date", "start_time",
      "charging_start_time", "session_date", "end_time">>

ClaimedEnergyOrder ==
    <<"charge_energy_added", "energy_added", "kwh", "energy", "charged_kwh",
      "energy_kWh", "charger_energy", "total_energy_wh", "total_energy_Wh">>

ClaimedContainerOrder ==
    <<"data_points", "data", "points", "items", "history", "charging_sessions">>

WattHourFields == {"total_energy_wh", "total_energy_Wh"}

\* The position in order of the first name that satisfies P, 0 if none does
FirstPosition(order, P(_)) ==
    LET hits == { i \in 1..Len(order) : P(order[i]) } IN
    IF hits = {} THEN 0 ELSE CHOOSE i \in hits : \A j \in hits : i <= j

\* The points a sequence of records emits, in the order of the records
RECURSIVE EmittedPoints(_)
EmittedPoints(l) ==
    IF l = <<>> THEN <<>>
    ELSE LET r == Head(l)
             one == IF IsDict(r) /\ ExtractWhen(r).some /\ ExtractEnergy(r).some
                    THEN <<Point(ExtractWhen(r), ExtractEnergy(r))>>
                    ELSE <<>>
         IN  one \o EmittedPoints(Tail(l))

\* The outcome of _extract_points_kwh_from_list on a sequence of records
Outcome(l) ==
    LET o == sort_points(EmittedPoints(l)) IN
    IF o.raised THEN Raised ELSE Returned(o.pts)

\* The outcome of the first sequence whose parse does not come back empty
RECURSIVE FirstDecisive(_)
FirstDecisive(seqs) ==
    IF seqs = <<>> THEN Returned(<<>>)
    ELSE IF Outcome(Head(seqs).kids) # Returned(<<>>)
         THEN Outcome(Head(seqs).kids)
         ELSE FirstDecisive(Tail(seqs))

\* a.timestamp <= b.timestamp
TimestampLeq(a, b) ==
    /\ a.when.aware = b.when.aware
    /\ IF a.when.aware
       THEN a.when.t - a.when.off <= b.when.t - b.when.off
       ELSE a.when.t <= b.when.t

PermutationsOf(n) ==
    { f \in [1..n -> 1..n] : \A i, j \in 1..n : i # j => f[i] # f[j] }

\* out holds the points of inp, each once, in ascending order of timestamp,
\* the points of equal timestamp in the order they have in inp
IsStableSortOf(out, inp) ==
    /\ Len(out) = Len(inp)
    /\ \E f \in PermutationsOf(Len(inp)) :
         /\ \A i \in 1..Len(out) : out[i] = inp[f[i]]
         /\ \A i, j \in 1..Len(out) :
              i < j => /\ TimestampLeq(out[i], out[j])
                       /\ TimestampLeq(out[j], out[i]) => f[i] < f[j]

---------------------------------------------------------------------------
(* C1 *)

\* C1: _extract_points_kwh ends by returning a series and never lets an
\* exception out, failures of the final sort included.
C1_NeverRaises == pc = "done" => result.status = "returned"

---------------------------------------------------------------------------
(* C2 *)

\* C2: a returned series is a permutation of the points emitted from the
\* chosen candidate sequence, in ascending order of timestamp, with the
\* points of equal timestamp all kept in the order of their records.
C2_StableSortedPermutation ==
    (HasReturned /\ result.pts # <<>>)
      => IsStableSortOf(result.pts, EmittedPoints(items))

\* A series of three points that the sort put into another order and that
\* holds two points of one instant with different energies.
C2_Witness ==
    /\ HasReturned
    /\ Len(result.pts) >= 3
    /\ result.pts # EmittedPoints(items)
    /\ \E i, j \in 1..Len(result.pts) :
         /\ i < j
         /\ TimestampLeq(result.pts[j], result.pts[i])
         /\ result.pts[i].energy # result.pts[j].energy

---------------------------------------------------------------------------
(* C3 *)

HasParsableTimestamp(r) ==
    \E i \in 1..Len(ClaimedTimeOrder) :
      /\ HasKey(r, ClaimedTimeOrder[i])
      /\ _parse_datetime_flexible(Get(r, ClaimedTimeOrder[i])).some

\* The energy value of a record is the value of its first energy field.
HasParsableEnergy(r) ==
    LET HasField(k) == HasKey(r, k)
        i == FirstPosition(ClaimedEnergyOrder, HasField)
    IN  /\ i # 0
        /\ ConvertEnergy(ClaimedEnergyOrder[i], Get(r, ClaimedEnergyOrder[i])).some

CountBoth(l) ==
    Cardinality({ i \in 1..Len(l) :
                    /\ IsDict(l[i])
                    /\ HasParsableTimestamp(l[i])
                    /\ HasParsableEnergy(l[i]) })

\* The sequence under the known container field of a mapping payload
ContainerPosition(h) ==
    LET HoldsList(k) == HasKey(h, k) /\ IsList(Get(h, k)) IN
    FirstPosition(ClaimedContainerOrder, HoldsList)

Container(h) == Get(h, ClaimedContainerOrder[ContainerPosition(h)]).kids

HasValidContainer(h) ==
    /\ IsDict(h)
    /\ ContainerPosition(h) # 0
    /\ AllDicts(Container(h))
    /\ CountBoth(Container(h)) >= 1

\* C3: for a mapping payload whose known container field holds a sequence
\* of mappings with at least one valid record, the returned series has as
\* many points as the sequence has records with both a parsable timestamp
\* and a parsable energy value.
C3_LengthIsCountOfValidRecords ==
    (HasReturned /\ HasValidContainer(history))
      => Len(result.pts) = CountBoth(Container(history))

\* A container of three records, one with a timestamp and no energy field,
\* from which two points were returned.
C3_Witness ==
    /\ HasReturned
    /\ HasValidContainer(history)
    /\ Len(Container(history)) = 3
    /\ Len(result.pts) = 2
    /\ \E i \in 1..3 : /\ HasParsableTimestamp(Container(history)[i])
                       /\ ~HasParsableEnergy(Container(history)[i])

---------------------------------------------------------------------------
(* C4 *)

\* C4: every point of every returned series has a timezone-aware timestamp
\* normalized to UTC.
C4_TimestampsAwareUtc ==
    HasReturned =>
      \A i \in 1..Len(result.pts) :
        result.pts[i].when.aware /\ result.pts[i].when.off = 0

---------------------------------------------------------------------------
(* C5 *)

\* The record of the iteration that has just ended
LastItem == items[idx - 1]

EnergyFieldPosition(r) ==
    LET HasField(k) == HasKey(r, k) IN FirstPosition(ClaimedEnergyOrder, HasField)

\* C5: a number taken from a watt-hour field is divided by 1000, a number
\* taken from any other energy field, the kilowatt-hour fields included,
\* is emitted unchanged.
C5_OnlyWattHoursDivided ==
    (/\ pc = "parse"
     /\ idx > 1
     /\ IsDict(LastItem)
     /\ when.some
     /\ EnergyFieldPosition(LastItem) # 0
     /\ IsNum(Get(LastItem, ClaimedEnergyOrder[EnergyFieldPosition(LastItem)])))
      => LET ek == ClaimedEnergyOrder[EnergyFieldPosition(LastItem)]
             n == Get(LastItem, ek).n
         IN  /\ energy_kwh.some
             /\ energy_kwh.x = IF ek \in WattHourFields THEN n ELSE n * 1000

---------------------------------------------------------------------------
(* C6 *)

\* C6: every point of every returned series has energy_kwh >= 0.
C6_EnergyNonNegative ==
    HasReturned => \A i \in 1..Len(result.pts) : result.pts[i].energy >= 0

---------------------------------------------------------------------------
(* C7 *)

Magnitude(n) == IF n < 0 THEN 0 - n ELSE n

\* C7: a numeric timestamp is read as milliseconds exactly when its
\* magnitude exceeds 10^12 and as seconds otherwise, for negative values
\* as for positive ones.
C7_MillisecondsByMagnitude ==
    (pc = "parse_done" /\ IsNum(value))
      => parsed = IF Magnitude(value.n) > 10000
                  THEN FromTimestampMillis(value.n)
                  ELSE FromTimestampUnits(value.n)

---------------------------------------------------------------------------
(* C8 *)

\* The iteration that has just ended was over a record
AfterRecord == pc = "parse" /\ idx > 1 /\ IsDict(LastItem)

\* C8, as stated: only the first timestamp field present in the record is
\* tried; if its value fails to parse the record has no timestamp.
C8_NoFallThrough ==
    AfterRecord =>
      LET HasField(k) == HasKey(LastItem, k)
          i == FirstPosition(ClaimedTimeOrder, HasField)
      IN  when = IF i = 0 THEN NoDatetime
                 ELSE _parse_datetime_flexible(Get(LastItem, ClaimedTimeOrder[i]))

\* C8, amended: the timestamp fields are tried in priority order and the
\* first one that is present and parses gives the timestamp; the record has
\* no timestamp only when no timestamp field that is present parses.
C8_FirstParsableField ==
    AfterRecord =>
      LET Parses(k) == /\ HasKey(LastItem, k)
                       /\ _parse_datetime_flexible(Get(LastItem, k)).some
          i == FirstPosition(ClaimedTimeOrder, Parses)
      IN  when = IF i = 0 THEN NoDatetime
                 ELSE _parse_datetime_flexible(Get(LastItem, ClaimedTimeOrder[i]))

\* A record whose first timestamp field fails to parse and whose later one
\* gave the timestamp.
C8_Witness ==
    /\ AfterRecord
    /\ HasKey(LastItem, "timestamp")
    /\ ~_parse_datetime_flexible(Get(LastItem, "timestamp")).some
    /\ HasKey(LastItem, "time")
    /\ when.some
    /\ when = _parse_datetime_flexible(Get(LastItem, "time"))

---------------------------------------------------------------------------
(* C9 *)

\* Every sequence of mappings of the tree, in depth-first order, those
\* inside the records of a sequence of mappings included
RECURSIVE EveryMappingSequence(_), EveryMappingSequenceIn(_)
EveryMappingSequence(obj) ==
    IF IsList(obj) /\ AllDicts(obj.kids)
    THEN <<obj>> \o EveryMappingSequenceIn(obj.kids)
    ELSE IF IsDict(obj) \/ IsList(obj) THEN EveryMappingSequenceIn(obj.kids)
    ELSE <<>>

EveryMappingSequenceIn(kids) ==
    IF kids = <<>> THEN <<>>
    ELSE EveryMappingSequence(Head(kids)) \o EveryMappingSequenceIn(Tail(kids))

NoKnownContainer(h) ==
    ~IsDict(h) \/ \A i \in 1..Len(ClaimedContainerOrder) :
                    ~HasKey(h, ClaimedContainerOrder[i])

\* C9: the tree search visits every sequence of mappings at any depth and
\* the parse of the first one that yields a point is returned; the result
\* is empty only if none yields a point.
C9_SearchReachesEverySequence ==
    (pc = "done" /\ history.tag # "none" /\ NoKnownContainer(history))
      => result = FirstDecisive(EveryMappingSequence(history))

---------------------------------------------------------------------------
(* C10 *)

TreeSearchOutcome(h) == FirstDecisive(_iter_nested_lists(h))

\* C10, as stated: only the first known container field that holds a
\* sequence is tried; if it yields no point the result is the one of the
\* tree search.
C10_OnlyFirstContainerTried ==
    (pc = "done" /\ IsDict(history) /\ ContainerPosition(history) # 0)
      => result = IF Outcome(Container(history)) # Returned(<<>>)
                  THEN Outcome(Container(history))
                  ELSE TreeSearchOutcome(history)

\* The known container fields that hold a sequence, in priority order
RECURSIVE ContainersFrom(_, _)
ContainersFrom(h, i) ==
    IF i > Len(ClaimedContainerOrder) THEN <<>>
    ELSE LET k == ClaimedContainerOrder[i] IN
         (IF HasKey(h, k) /\ IsList(Get(h, k)) THEN <<Get(h, k)>> ELSE <<>>)
           \o ContainersFrom(h, i + 1)

\* C10, amended: every known container field that holds a sequence is
\* tried, in priority order, before the tree search; the first whose parse
\* does not come back empty ends the call with the outcome of that parse,
\* and only if all come back empty is the result the one of the tree search.
C10_ContainersInPriorityOrder ==
    (pc = "done" /\ IsDict(history))
      => result = IF FirstDecisive(ContainersFrom(history, 1)) # Returned(<<>>)
                  THEN FirstDecisive(ContainersFrom(history, 1))
                  ELSE TreeSearchOutcome(history)

\* The first known container field yields nothing, a later one gave the
\* result, and the tree search would have given another.
C10_Witness ==
    /\ HasReturned
    /\ IsDict(history)
    /\ ContainerPosition(history) # 0
    /\ Outcome(Container(history)) = Returned(<<>>)
    /\ result.pts # <<>>
    /\ result = FirstDecisive(ContainersFrom(history, 1))
    /\ result # TreeSearchOutcome(history)

===========================================================================
